---- MODULE Spec2Model ----
(***************************************************************************)
(* Model of the retrieval core of kabsai (backend/app/rag_engine.py and    *)
(* backend/app/routers/files.py): the indexing pipeline writing the chunk  *)
(* store through SQLAlchemy sessions, the batch indexer that runs its jobs *)
(* on worker threads sharing ONE session, and the searches reading the     *)
(* committed store.                                                        *)
(*                                                                         *)
(* Database semantics (PostgreSQL, config.py:8, READ COMMITTED):           *)
(*   - chunks / files are the COMMITTED tables, what any other session     *)
(*     (a concurrent reader) observes;                                     *)
(*   - a session holds one open transaction: the committed rows its bulk   *)
(*     DELETE removed (deleted), the rows it added (added) and the file    *)
(*     records it modified (dirty). commit publishes all three at once,    *)
(*     rollback discards all three, whoever produced them;                 *)
(*   - a bulk DELETE autoflushes, so it also removes the session's own     *)
(*     added rows of that file; it waits while another transaction holds   *)
(*     the row locks of an uncommitted DELETE of the same rows;            *)
(*   - file_chunks.file_id is a foreign key to files.id (models.py:65):    *)
(*     a commit that inserts chunks of, or updates, a file that no longer  *)
(*     exists raises.                                                      *)
(* Each session call (query, delete, add, commit, rollback) is one atomic  *)
(* step; worker threads interleave between calls.                          *)
(***************************************************************************)
EXTENDS Integers, Sequences, FiniteSets, TLC

-----------------------------------------------------------------------------
(* Bounds of the model. *)

\* Number of file ids (files.id is a serial key: 1, 2, ...).
MaxFiles == 2
\* Largest number of chunks chunk_text returns for one extracted text.
MaxChunks == 2
\* Largest number of ids handed to one process_multiple_files_for_rag call.
MaxBatch == 2
\* Number of indexing passes (successful extractions) in one behaviour.
MaxPass == 2

FileIds == 1..MaxFiles
\* Run 0 is a single process_file_for_rag call on the request's own session
\* (upload_file, reindex_file); runs 1..MaxBatch are the jobs of a batch.
Runs == 0..MaxBatch
Sessions == {"req", "batch"}

VARIABLES
    files,      \* files table: id -> [state, embedding_status, is_indexed]
    chunks,     \* file_chunks table (committed rows)
    sess,       \* session -> its open transaction
    run,        \* run -> position and locals of process_file_for_rag
    nextPass,   \* fresh identity of the next chunking pass
    bpc,        \* process_multiple_files_for_rag: "idle", "running", "returned"
    ids,        \* its file_ids argument
    results,    \* its results dict
    found,      \* the returned list of the last search
    foundBy,    \* which search produced it
    feat,       \* candidate chunk -> what the query makes of its content
    arg,        \* the arguments of the last call of a function under study
    ret         \* what that call returned

\* The state the indexing pipeline does not touch.
callVars == <<feat, arg, ret>>

vars == <<files, chunks, sess, run, nextPass, bpc, ids, results, found, foundBy,
          feat, arg, ret>>

-----------------------------------------------------------------------------
(* Rows and records. *)

\* FileChunk(file_id, chunk_index, content, embedding, is_indexed=True): pass
\* stands for the content (which chunking pass produced the row), emb is
\* FALSE when the embedding column is None.
ChunkRow(f, i, p, e) == [file_id |-> f, chunk_index |-> i, pass |-> p, emb |-> e]

NoFile == [state |-> "absent", embedding_status |-> "none", is_indexed |-> FALSE]

NoTxn == [deleted |-> {}, added |-> {}, dirty |-> {}]

\* noemb: the indices whose create_embedding call returned []; ndel: the
\* number of rows the bulk DELETE removed.
IdleRun == [pc |-> "idle", fid |-> 0, n |-> 0, i |-> 0, pass |-> 0, ndel |-> 0,
            noemb |-> {}, result |-> FALSE]

\* No call made yet.
NoCall == [fn |-> "none"]

NoResults == [successful |-> <<>>, failed |-> <<>>, total_processed |-> 0,
              total_files |-> 0]

SessOf(r) == IF r = 0 THEN "req" ELSE "batch"

ChunksOf(f) == {c \in chunks : c.file_id = f}

\* The state after construction: empty tables, nothing running.
InitStore ==
    /\ files = [f \in FileIds |-> NoFile]
    /\ chunks = {}
    /\ sess = [s \in Sessions |-> NoTxn]
    /\ run = [r \in Runs |-> IdleRun]
    /\ nextPass = 1
    /\ bpc = "idle"
    /\ ids = <<>>
    /\ results = NoResults
    /\ found = <<>>
    /\ foundBy = "none"

Init ==
    /\ InitStore
    /\ feat = <<>>
    /\ arg = NoCall
    /\ ret = NoCall

-----------------------------------------------------------------------------
(* Session operations. *)

\* A DELETE that misses the committed rows of the file.
SessionDeleteOwnOnly(t, f) == [t EXCEPT !.added = {c \in @ : c.file_id # f}]

\* db.query(FileChunk).filter(FileChunk.file_id == f).delete()
SessionDelete(t, f) ==
    [t EXCEPT !.deleted = @ \cup ChunksOf(f),
              !.added = {c \in @ : c.file_id # f}]

\* db.add(chunk)
SessionAdd(t, c) == [t EXCEPT !.added = @ \cup {c}]

\* file_record.is_indexed = True; file_record.embedding_status = "indexed"
SessionTouch(t, f) == [t EXCEPT !.dirty = @ \cup {f}]

\* A schema without the foreign key of file_chunks.file_id.
NoForeignKey(t) == TRUE

\* The flush of db.commit() succeeds when every file the transaction inserts
\* chunks for, or updates, still exists.
CanCommit(t) ==
    \A f \in t.dirty \cup {c.file_id : c \in t.added} : files[f].state = "present"

\* The status process_file_for_rag writes on success.
IndexedStatus == "indexed"

CommittedChunks(t) == (chunks \ t.deleted) \cup t.added

CommittedFiles(t) ==
    [f \in FileIds |->
        IF f \in t.dirty
        THEN [files[f] EXCEPT !.is_indexed = TRUE, !.embedding_status = IndexedStatus]
        ELSE files[f]]

\* A DELETE that was executed outside the transaction.
DeleteSurvivesRollback(t) == chunks \ t.deleted

\* db.rollback(): the DELETE and the pending rows of the transaction are
\* discarded, the committed rows stay.
RolledBack(t) == chunks

\* Another session holds the row locks of an uncommitted DELETE of f's chunks.
RowsLocked(s, f) ==
    \E o \in Sessions \ {s} : \E c \in sess[o].deleted : c.file_id = f

-----------------------------------------------------------------------------
(* upload_file / delete_file (routers/files.py). *)

\* The record is created with embedding_status "pending" when
\* file_processor.process_file succeeded, "failed" otherwise.
UploadStatus(ok) == IF ok THEN "pending" ELSE "failed"

\* Lines 66-88: the record gets the next serial id and is committed.
UploadFile(f, ok) ==
    /\ files[f].state = "absent"
    /\ \A g \in FileIds : g < f => files[g].state # "absent"
    /\ files' = [files EXCEPT ![f] = [state |-> "present",
                                      embedding_status |-> UploadStatus(ok),
                                      is_indexed |-> FALSE]]
    /\ UNCHANGED <<chunks, sess, run, nextPass, bpc, ids, results, found, foundBy, callVars>>

\* Lines 342-366, one transaction on the request's own session: the chunks
\* and the record of the file are deleted and committed together. Its DELETE
\* waits for the row locks of an uncommitted DELETE of the same chunks.
DeleteFile(f) ==
    /\ files[f].state = "present"
    /\ \A s \in Sessions : \A c \in sess[s].deleted : c.file_id # f
    /\ chunks' = chunks \ ChunksOf(f)
    /\ files' = [files EXCEPT ![f] = [NoFile EXCEPT !.state = "deleted"]]
    /\ UNCHANGED <<sess, run, nextPass, bpc, ids, results, found, foundBy, callVars>>

-----------------------------------------------------------------------------
(* process_file_for_rag, one action per session call. *)

\* A caller (upload_file, reindex_file) invokes process_file_for_rag(db, f)
\* on its own session.
StartIndex(f) ==
    /\ run[0].pc \in {"idle", "done"}
    /\ run' = [run EXCEPT ![0] = [IdleRun EXCEPT !.pc = "start", !.fid = f]]
    /\ UNCHANGED <<files, chunks, sess, nextPass, bpc, ids, results, found, foundBy, callVars>>

\* What lines 143-160 can do besides handing a chunk list on: "missing"
\* (the file is not on disk), "blank" (no text extracted), "raise"
\* (extract_text raises).
Failures == {"missing", "blank", "raise"}

Returned(rec, ok) ==
    IF ok THEN [rec EXCEPT !.pc = "done", !.i = 0, !.result = TRUE]
    ELSE [IdleRun EXCEPT !.pc = "done", !.fid = rec.fid]

\* Lines 143-157 and 188-191: the early returns (no record, not on disk,
\* blank text) and the extraction exception, which rolls the session back.
Resolve(r, out) ==
    /\ run[r].pc = "start"
    /\ run' = [run EXCEPT ![r] = Returned(@, FALSE)]
    /\ IF files[run[r].fid].state = "present" /\ out = "raise"
       THEN /\ chunks' = RolledBack(sess[SessOf(r)])
            /\ sess' = [sess EXCEPT ![SessOf(r)] = NoTxn]
       ELSE UNCHANGED <<chunks, sess>>
    /\ UNCHANGED <<files, nextPass, bpc, ids, results, found, foundBy, callVars>>

\* Lines 143-163: the record exists, the text is chunked into n chunks, and
\* the existing chunks of the file are deleted. The steps before the DELETE
\* only read, so they are taken together with it.
DeleteChunks(r, n) ==
    /\ run[r].pc = "start"
    /\ nextPass <= MaxPass
    /\ LET f == run[r].fid
           s == SessOf(r)
       IN  /\ files[f].state = "present"
           /\ ~RowsLocked(s, f)
           /\ sess' = [sess EXCEPT ![s] = SessionDelete(@, f)]
           /\ run' = [run EXCEPT ![r] = [@ EXCEPT !.pc = "add", !.n = n, !.i = 0,
                                                  !.pass = nextPass,
                                                  !.ndel = Cardinality(ChunksOf(f))]]
    /\ nextPass' = nextPass + 1
    /\ UNCHANGED <<files, chunks, bpc, ids, results, found, foundBy, callVars>>

\* json.dumps(embedding) without the "if embedding else None": the column
\* holds "[]" instead of None.
StoredEmbeddingUnguarded(embedded) == TRUE

\* create_embedding returns [] on any error, and the chunk is then stored
\* with embedding None.
StoredEmbedding(embedded) == embedded

\* Lines 166-179: one iteration of the loop over the chunks.
AddChunk(r, embedded) ==
    /\ run[r].pc = "add"
    /\ run[r].i < run[r].n
    /\ LET s == SessOf(r)
           c == ChunkRow(run[r].fid, run[r].i, run[r].pass, StoredEmbedding(embedded))
       IN  sess' = [sess EXCEPT ![s] = SessionAdd(@, c)]
    /\ run' = [run EXCEPT ![r] = [@ EXCEPT !.i = @ + 1,
                                           !.noemb = IF embedded THEN @
                                                     ELSE @ \cup {run[r].i}]]
    /\ UNCHANGED <<files, chunks, nextPass, bpc, ids, results, found, foundBy, callVars>>

\* Lines 181-191: set the status, commit, return True; an exception of the
\* commit is caught, rolled back and reported as False.
Commit(r) ==
    /\ run[r].pc = "add"
    /\ run[r].i = run[r].n
    /\ LET s == SessOf(r)
           t == SessionTouch(sess[s], run[r].fid)
       IN  IF CanCommit(t)
           THEN /\ chunks' = CommittedChunks(t)
                /\ files' = CommittedFiles(t)
                /\ sess' = [sess EXCEPT ![s] = NoTxn]
                /\ run' = [run EXCEPT ![r] = Returned(@, TRUE)]
           ELSE /\ chunks' = RolledBack(sess[s])
                /\ sess' = [sess EXCEPT ![s] = NoTxn]
                /\ run' = [run EXCEPT ![r] = Returned(@, FALSE)]
                /\ UNCHANGED files
    /\ UNCHANGED <<nextPass, bpc, ids, results, found, foundBy, callVars>>

\* Lines 188-191: the database fails (connection lost, ...) at the commit.
StorageError(r) ==
    /\ run[r].pc = "add"
    /\ run[r].i = run[r].n
    /\ chunks' = RolledBack(sess[SessOf(r)])
    /\ sess' = [sess EXCEPT ![SessOf(r)] = NoTxn]
    /\ run' = [run EXCEPT ![r] = Returned(@, FALSE)]
    /\ UNCHANGED <<files, nextPass, bpc, ids, results, found, foundBy, callVars>>

-----------------------------------------------------------------------------
(* process_multiple_files_for_rag. *)

Jobs == 1..Len(ids)

BatchInputs == UNION {[1..k -> FileIds] : k \in 1..MaxBatch}

\* Lines 195-217: every id is submitted to the executor; all jobs get the
\* caller's session db.
BatchStart(input) ==
    /\ bpc \in {"idle", "returned"}
    /\ ids' = input
    /\ bpc' = "running"
    /\ results' = [NoResults EXCEPT !.total_files = Len(input)]
    /\ run' = [r \in Runs |->
                 IF r = 0 THEN run[0]
                 ELSE IF r <= Len(input)
                      THEN [IdleRun EXCEPT !.pc = "start", !.fid = input[r]]
                      ELSE IdleRun]
    /\ UNCHANGED <<files, chunks, sess, nextPass, found, foundBy, callVars>>

RECURSIVE SelectIds(_, _, _)
\* The ids of the jobs 1..k whose success flag is ok, in submission order.
SelectIds(input, k, ok) ==
    IF k = 0 THEN <<>>
    ELSE LET rest == SelectIds(input, k - 1, ok)
         IN  IF run[k].result = ok THEN Append(rest, input[k]) ELSE rest

\* Collecting without waiting for the futures.
NoJoin == TRUE

\* future.result() blocks until the job has returned.
AllJobsDone == \A j \in Jobs : run[j].pc = "done"

\* Lines 219-234: future.result() of every future, in submission order.
BatchCollect ==
    /\ bpc = "running"
    /\ AllJobsDone
    /\ results' = [results EXCEPT !.successful = SelectIds(ids, Len(ids), TRUE),
                                  !.failed = SelectIds(ids, Len(ids), FALSE),
                                  !.total_processed = Len(ids)]
    /\ bpc' = "returned"
    /\ UNCHANGED <<files, chunks, sess, run, nextPass, ids, found, foundBy, callVars>>

-----------------------------------------------------------------------------
(* Searches. The embedding model is external: the cosine similarity of a    *)
(* candidate to the query is drawn from SimVals (tenths), and a            *)
(* create_embedding call may fail.                                         *)

\* self.min_similarity_threshold = 0.3, in tenths.
MinSimilarityThreshold == 3
\* search_similar_chunks(..., limit = 10)
DefaultLimit == 10
\* chat_with_rag: search_chunks(chunks, query, limit=25)
ScopedLimit == 25

SimVals == {2, 3}
NoEmbedding == 0
Limits == {1, DefaultLimit}

\* Lines 244-256: FileChunk.is_indexed == True, FileChunk.embedding is not
\* None, joined with the file record.
IndexedChunks ==
    {c \in chunks : c.emb /\ files[c.file_id].state = "present"}

\* Lines 575-579: the chunks of the files of context_files with
\* FileChunk.is_indexed == True (every row is stored with is_indexed=True).
ScopedChunks(scope) == {c \in chunks : c.file_id \in scope}

\* The lists a stable sort by similarity, descending, can give for the kept
\* set S: rows of equal similarity stay in the order the store enumerated
\* them, which the query does not fix.
SortedBySimilarity(S, sim) ==
    {q \in [1..Cardinality(S) -> S] :
        /\ \A a, b \in DOMAIN q : a # b => q[a] # q[b]
        /\ \A a, b \in DOMAIN q : a < b => sim[q[a]] >= sim[q[b]]}

Truncate(q, limit) == SubSeq(q, 1, IF Len(q) < limit THEN Len(q) ELSE limit)

Hits(q, sim) == [k \in DOMAIN q |-> [chunk |-> q[k], similarity |-> sim[q[k]]]]

\* A search that deletes the rows it cannot score.
DropsUnembedded(rows) == {c \in rows : c.emb}

\* What a search does to the file_chunks table: it only calls
\* db.query(...).all(), never add, delete or commit.
ReadOnly(rows) == rows

\* Lines 236-286, pricing_focus = False.
SearchSimilar(queryEmbedded, limit) ==
    /\ chunks' = ReadOnly(chunks)
    /\ foundBy' = "search_similar_chunks"
    /\ IF ~queryEmbedded
       THEN found' = <<>>
       ELSE \E sim \in [IndexedChunks -> SimVals] :
              LET kept == {c \in IndexedChunks : sim[c] >= MinSimilarityThreshold}
              IN  \E q \in SortedBySimilarity(kept, sim) :
                     found' = Truncate(Hits(q, sim), limit)
    /\ UNCHANGED <<files, sess, run, nextPass, bpc, ids, results, callVars>>

\* Lines 572-598 and 413-440: chat_with_rag with context_files; search_chunks
\* embeds the content of every chunk in scope again (NoEmbedding: that call
\* failed) and keeps those at or above the threshold.
ChatScoped(scope, queryEmbedded) ==
    /\ scope # {}
    /\ chunks' = ReadOnly(chunks)
    /\ foundBy' = "chat_with_rag.context_files"
    /\ IF ~queryEmbedded
       THEN found' = <<>>
       ELSE \E sim \in [ScopedChunks(scope) -> SimVals \cup {NoEmbedding}] :
              LET kept == {c \in ScopedChunks(scope) :
                              /\ sim[c] # NoEmbedding
                              /\ sim[c] >= MinSimilarityThreshold}
              IN  \E q \in SortedBySimilarity(kept, sim) :
                     found' = Truncate(Hits(q, sim), ScopedLimit)
    /\ UNCHANGED <<files, sess, run, nextPass, bpc, ids, results, callVars>>

-----------------------------------------------------------------------------
(* The ranking functions over the rows their query returns. Candidate k is *)
(* the chunk with chunk_index k - 1 of the indexed document; feat[k] holds *)
(* what the query and the content of the chunk give: the cosine similarity *)
(* (in tenths, negative for opposed vectors) and which heuristics the      *)
(* content triggers. Multipliers are in tenths, so boosted similarities    *)
(* are in hundredths.                                                      *)

\* Largest number of candidate rows in a store with mixed content.
MaxCands == 2
\* Largest number of candidate rows in a store searched without boost.
MaxPlain == 3

BaseSims == {-5, 2, 3, 5, 9}

\* What the content of a chunk triggers: nothing, _contains_pricing_content
\* only, _contains_product_content only, both, or _extract_product_models
\* only.
Kinds == {"plain", "pricing", "product", "both", "code"}
PlainKinds == {"plain", "pricing"}

Cands == DOMAIN feat
ChunkIndex(c) == c - 1

\* _contains_pricing_content(chunk.content)
HasPricing(kind) == kind \in {"pricing", "both"}
\* _contains_product_content(chunk.content)
HasProduct(kind) == kind \in {"product", "both"}
\* _extract_product_models(chunk.content) is not empty
HasModels(kind) == kind = "code"

\* boost_multiplier = 1.0
NoBoost == 10
\* search_similar_chunks: similarity *= 1.5
FocusBoost == 15
\* search_pricing_specific: similarity *= 1.8
PricingBoost == 18
\* search_product_pricing_matching: 2.5, 1.8, 1.5
BothBoost == 25
PricingOnlyBoost == 18
ProductOnlyBoost == 15

SearchFns == {"search_similar_chunks", "search_pricing_specific",
              "search_product_pricing_matching", "search_chunks"}

\* A ranking that never boosts.
NeverBoost(fn, focus, kind) == NoBoost

\* The multiplier each function applies to the cosine similarity.
BoostMultiplier(fn, focus, kind) ==
    CASE fn = "search_similar_chunks" ->
            IF focus /\ HasPricing(kind) THEN FocusBoost ELSE NoBoost
      [] fn = "search_pricing_specific" ->
            IF HasPricing(kind) THEN PricingBoost ELSE NoBoost
      [] fn = "search_product_pricing_matching" ->
            IF HasPricing(kind) /\ HasProduct(kind) THEN BothBoost
            ELSE IF HasPricing(kind) THEN PricingOnlyBoost
            ELSE IF HasProduct(kind) THEN ProductOnlyBoost
            ELSE NoBoost
      [] OTHER -> NoBoost

\* A boosted similarity cut at 1.0.
BoostedClamped(fn, focus, c) ==
    LET b == feat[c].sim * BoostMultiplier(fn, focus, feat[c].kind)
    IN  IF b > NoBoost * NoBoost THEN NoBoost * NoBoost ELSE b

\* similarity *= multiplier
Boosted(fn, focus, c) == feat[c].sim * BoostMultiplier(fn, focus, feat[c].kind)

\* A threshold test that drops a similarity equal to the threshold.
StrictlyAboveThreshold(boosted) == boosted > MinSimilarityThreshold * NoBoost

\* similarity >= self.min_similarity_threshold
AboveThreshold(boosted) == boosted >= MinSimilarityThreshold * NoBoost

\* The inclusion test of each function.
Kept(fn, focus, c) ==
    LET above == AboveThreshold(Boosted(fn, focus, c))
        kind == feat[c].kind
    IN  CASE fn = "search_pricing_specific" -> above \/ HasPricing(kind)
          [] fn = "search_product_pricing_matching" ->
                above \/ HasPricing(kind) \/ HasProduct(kind) \/ HasModels(kind)
          [] OTHER -> above

\* A loop without the try/except around each row.
AlwaysScorable(c) == TRUE

\* Lines 261-278: json.loads(chunk.embedding) and cosine_similarity raise for
\* a stored embedding that is not JSON or has another dimension than the
\* query vector; the row is then skipped (continue).
Scorable(c) == feat[c].stored = "ok"

\* A search that goes on with the empty query vector.
QueryEmbeddingUnchecked(queryEmbedded) == FALSE

\* if not query_embedding: return []
NoQueryEmbedding(queryEmbedded) == ~queryEmbedded

RankHits(q, fn, focus) ==
    [k \in DOMAIN q |-> [chunk |-> q[k],
                         similarity |-> Boosted(fn, focus, q[k]),
                         boost |-> BoostMultiplier(fn, focus, feat[q[k]].kind)]]

RankLimits == {1, 5}

\* The body shared by the search functions: embed the query, score and
\* filter every row in S, sort by similarity descending, cut at limit. The
\* lists it can return, one per order in which the store enumerates rows of
\* equal similarity.
RankedLists(fn, focus, queryEmbedded, limit, S) ==
    IF NoQueryEmbedding(queryEmbedded)
    THEN {<<>>}
    ELSE LET kept == {c \in S : /\ (fn = "search_chunks" \/ Scorable(c))
                                 /\ Kept(fn, focus, c)}
             sim == [c \in Cands |-> Boosted(fn, focus, c)]
         IN  {Truncate(RankHits(q, fn, focus), limit) :
                 q \in SortedBySimilarity(kept, sim)}

\* A call of a search function by itself. The call leaves the store as it
\* is, so one call per behaviour reaches every outcome.
Ranked(fn, focus, queryEmbedded, limit, S) ==
    /\ arg = NoCall
    /\ arg' = [fn |-> fn, pricing_focus |-> focus, embedded |-> queryEmbedded,
               limit |-> limit]
    /\ foundBy' = fn
    /\ found' \in RankedLists(fn, focus, queryEmbedded, limit, S)
    /\ UNCHANGED <<files, chunks, sess, run, nextPass, bpc, ids, results, feat, ret>>

\* Lines 236-286.
SearchSimilarChunks(focus, queryEmbedded, limit) ==
    Ranked("search_similar_chunks", focus, queryEmbedded, limit, Cands)

\* Lines 288-342.
SearchPricingSpecific(queryEmbedded, limit) ==
    Ranked("search_pricing_specific", FALSE, queryEmbedded, limit, Cands)

\* Lines 344-411.
SearchProductPricingMatching(queryEmbedded, limit) ==
    Ranked("search_product_pricing_matching", FALSE, queryEmbedded, limit, Cands)

\* Lines 413-440: the content of every chunk handed in is embedded again;
\* the chunks whose embedding fails are left out.
SearchChunks(queryEmbedded, limit) ==
    \E embedded \in SUBSET Cands :
        Ranked("search_chunks", FALSE, queryEmbedded, limit, embedded)

CandStores(n, kinds) ==
    UNION {[1..k -> [sim : BaseSims, kind : kinds, stored : {"ok"}]] : k \in 0..n}

\* Stores in which the embedding column of a row may be unusable.
DamagedStores(n, kinds) ==
    UNION {[1..k -> [sim : BaseSims, kind : kinds, stored : {"ok", "bad"}]] : k \in 0..n}

-----------------------------------------------------------------------------
(* create_enhanced_context. A chunk handed in is [file_id, words]: words is *)
(* len(chunk['content'].split()); header[f] is the number of words of the  *)
(* header line of file f. The returned string is the join of the parts.    *)

\* Largest number of chunks handed to create_enhanced_context.
MaxRanked == 2

WordCounts == {2, 6, 8}
TokenBudgets == {10, 20}
\* "=== FILE: {title} ({filename}) - Type: {file_type} ===" has six words
\* besides those of the title and of the file type.
HeaderWords == {6, 8}

RECURSIVE GroupKeys(_, _)
\* file_groups.keys(): the file ids in the order of their first chunk.
GroupKeys(q, k) ==
    IF k = 0 THEN <<>>
    ELSE LET before == GroupKeys(q, k - 1)
         IN  IF \E j \in DOMAIN before : before[j] = q[k].file_id
             THEN before
             ELSE Append(before, q[k].file_id)

\* file_groups[f]: the positions in the input of the chunks of file f, in
\* input order.
RECURSIVE GroupOf(_, _, _)
GroupOf(q, f, k) ==
    IF k = 0 THEN <<>>
    ELSE IF q[k].file_id = f THEN Append(GroupOf(q, f, k - 1), k)
         ELSE GroupOf(q, f, k - 1)

HeaderPart(f) == [part |-> "header", file_id |-> f]
ChunkPart(k) == [part |-> "chunk", pos |-> k]

\* current_tokens += len(file_header.split())
HeaderCount(hdr, f) == hdr[f]

RECURSIVE AddChunks(_, _, _, _, _)
\* Lines 472-483: the chunks of one group, until one does not fit (break).
AddChunks(q, g, k, max, st) ==
    IF k > Len(g) THEN st
    ELSE IF st.current + q[g[k]].words > max THEN st
    ELSE AddChunks(q, g, k + 1, max,
                   [parts |-> Append(st.parts, ChunkPart(g[k])),
                    current |-> st.current + q[g[k]].words])

RECURSIVE AddGroups(_, _, _, _, _, _)
\* Lines 456-483: the groups, until the budget is used up (break).
AddGroups(q, keys, k, max, hdr, st) ==
    IF k > Len(keys) THEN st
    ELSE IF st.current >= max THEN st
    ELSE LET f == keys[k]
             withHeader == [parts |-> Append(st.parts, HeaderPart(f)),
                            current |-> st.current + HeaderCount(hdr, f)]
         IN  AddGroups(q, keys, k + 1, max, hdr,
                       AddChunks(q, GroupOf(q, f, Len(q)), 1, max, withHeader))

\* Lines 442-485.
EnhancedContext(q, max, hdr) ==
    AddGroups(q, GroupKeys(q, Len(q)), 1, max, hdr,
              [parts |-> <<>>, current |-> 0]).parts

AssembleInputs ==
    [fn : {"create_enhanced_context"},
     chunks : UNION {[1..k -> [file_id : FileIds, words : WordCounts]] : k \in 0..MaxRanked},
     max_tokens : TokenBudgets,
     header : [FileIds -> HeaderWords]]

CreateEnhancedContext ==
    /\ arg.fn = "create_enhanced_context"
    /\ ret = NoCall
    /\ ret' = [fn |-> arg.fn,
               parts |-> EnhancedContext(arg.chunks, arg.max_tokens, arg.header)]
    /\ UNCHANGED <<files, chunks, sess, run, nextPass, bpc, ids, results, found,
                   foundBy, feat, arg>>

-----------------------------------------------------------------------------
(* chat_with_rag. The rows of feat carry the file_id of their chunk. What  *)
(* the caller and the environment decide: context_files (None, or a list), *)
(* pricing_focus, what the keyword tests make of the query, and whether    *)
(* the embedding of the query, the database and the completion call work.  *)

\* chat_with_rag: limit=50 in the searches over all files.
ChatLimit == 50

ChatSims == {2, 5}
ChatKinds == {"plain", "pricing"}

\* context_files: given = FALSE stands for None.
NoScope == [given |-> FALSE, files |-> {}]
Scopes == {NoScope} \cup [given : {TRUE}, files : SUBSET FileIds]

\* The ids of the users who call chat_with_rag.
UserIds == {1, 2}

\* upload_file creates every record with uploaded_by=1.
DefaultUser == 1

\* File.uploaded_by of the file with id f.
UploadedBy(f) == DefaultUser

\* Lines 250-254, 302-306, 358-362: the join with File that keeps the chunks
\* of the files user_id uploaded.
OwnedBy(user_id, S) == {c \in S : UploadedBy(feat[c].file_id) = user_id}

\* if context_files:
ScopeGiven(scope) == scope.given /\ scope.files # {}

\* Lines 601-609: which search the query and pricing_focus select.
SearchFor(productQuery, pricingQuery, focus) ==
    IF productQuery THEN "search_product_pricing_matching"
    ELSE IF focus \/ pricingQuery THEN "search_pricing_specific"
    ELSE "search_similar_chunks"

\* Lines 652-665: the result of the except branch.
ErrorResult ==
    [fn |-> "chat_with_rag", response |-> "error", context_files |-> {},
     context_chunks |-> <<>>, similarity_scores |-> <<>>]

\* Lines 631-650: the response of generate_laser_focused_response (its own
\* except branch returns the apology text) and the result built from the
\* chunks found.
Result(hits, generationOk) ==
    [fn |-> "chat_with_rag",
     response |-> IF generationOk THEN "generated" ELSE "error",
     context_files |-> {feat[hits[k].chunk].file_id : k \in DOMAIN hits},
     context_chunks |-> [k \in DOMAIN hits |-> hits[k].chunk],
     similarity_scores |-> [k \in DOMAIN hits |-> hits[k].similarity]]

\* Lines 566-665. The call leaves the store as it is, so one call per
\* behaviour reaches every outcome.
ChatWithRag(user_id, scope, focus, productQuery, pricingQuery, queryEmbedded, dbOk, generationOk) ==
    /\ ret = NoCall
    /\ arg' = [fn |-> "chat_with_rag", user_id |-> user_id, context_files |-> scope,
               pricing_focus |-> focus, product_query |-> productQuery,
               pricing_query |-> pricingQuery, embedded |-> queryEmbedded,
               db_ok |-> dbOk, generation_ok |-> generationOk]
    /\ IF ScopeGiven(scope)
       THEN \* lines 572-598: the chunks are selected by file_id and is_indexed
            \* only; a failing db.query ends in the outer except
            IF ~dbOk
            THEN /\ found' = <<>>
                 /\ foundBy' = "none"
                 /\ ret' = ErrorResult
            ELSE \E embedded \in SUBSET {c \in Cands : feat[c].file_id \in scope.files} :
                 \E hits \in RankedLists("search_chunks", FALSE, queryEmbedded,
                                         ScopedLimit, embedded) :
                    /\ found' = hits
                    /\ foundBy' = "search_chunks"
                    /\ ret' = Result(hits, generationOk)
       ELSE \* lines 599-625; the search functions catch a failing db.query
            \* themselves and return []
            LET fn == SearchFor(productQuery, pricingQuery, focus)
            IN  \E hits \in (IF dbOk
                             THEN RankedLists(fn, focus, queryEmbedded, ChatLimit,
                                              OwnedBy(user_id, Cands))
                             ELSE {<<>>}) :
                    /\ found' = hits
                    /\ foundBy' = fn
                    /\ ret' = Result(hits, generationOk)
    /\ UNCHANGED <<files, chunks, sess, run, nextPass, bpc, ids, results, feat>>

ChatStores ==
    UNION {[1..k -> [file_id : FileIds, sim : ChatSims, kind : ChatKinds, stored : {"ok"}]] :
              k \in 0..MaxCands}

-----------------------------------------------------------------------------
(* FileProcessor.chunk_text (file_processor.py). The text is the sequence  *)
(* of tokens self.tokenizer.encode gives; a chunk is the token window that *)
(* self.tokenizer.decode turns back into text.                             *)

\* Largest number of tokens of a text.
MaxTokens == 4
\* Largest chunk_size and overlap.
MaxSize == 3

Vocabulary == {1, 2}
Texts == UNION {[1..k -> Vocabulary] : k \in 0..MaxTokens}

\* A window that advances by the whole chunk size.
StepIgnoringOverlap(chunk_size, overlap) == chunk_size

\* range(0, len(tokens), chunk_size - overlap)
Step(chunk_size, overlap) == chunk_size - overlap

\* tokens[i:i + chunk_size], i counted from 0.
Slice(tokens, i, chunk_size) ==
    SubSeq(tokens, i + 1, IF i + chunk_size < Len(tokens) THEN i + chunk_size
                          ELSE Len(tokens))

\* A loop that also runs for the start i = len(tokens).
PastEndExclusive(i, n) == i > n

\* range(0, len(tokens), step) ends before the first start i >= len(tokens).
PastEnd(i, n) == i >= n

RECURSIVE Windows(_, _, _, _)
\* Lines 389-392: one window per start i = 0, step, 2 step, ... < len(tokens).
Windows(tokens, chunk_size, step, i) ==
    IF PastEnd(i, Len(tokens)) THEN <<>>
    ELSE <<Slice(tokens, i, chunk_size)>> \o Windows(tokens, chunk_size, step, i + step)

\* Lines 384-394. range() raises ValueError for a step of zero and is empty
\* for a negative step.
ChunkTextResult(tokens, chunk_size, overlap) ==
    LET step == Step(chunk_size, overlap)
    IN  IF step = 0 THEN [fn |-> "chunk_text", raised |-> TRUE, chunks |-> <<>>]
        ELSE IF step < 0 THEN [fn |-> "chunk_text", raised |-> FALSE, chunks |-> <<>>]
        ELSE [fn |-> "chunk_text", raised |-> FALSE,
              chunks |-> Windows(tokens, chunk_size, step, 0)]

ChunkInputs ==
    [fn : {"chunk_text"}, tokens : Texts, chunk_size : 1..MaxSize, overlap : 0..MaxSize]

ChunkText ==
    /\ arg.fn = "chunk_text"
    /\ ret = NoCall
    /\ ret' = ChunkTextResult(arg.tokens, arg.chunk_size, arg.overlap)
    /\ UNCHANGED <<files, chunks, sess, run, nextPass, bpc, ids, results, found,
                   foundBy, feat, arg>>

-----------------------------------------------------------------------------
(* The concurrent system: requests and batch jobs interleave. *)

RunStep(r) ==
    \/ \E out \in Failures : Resolve(r, out)
    \/ \E n \in 1..MaxChunks : DeleteChunks(r, n)
    \/ \E e \in BOOLEAN : AddChunk(r, e)
    \/ Commit(r)
    \/ StorageError(r)

Next ==
    \/ \E f \in FileIds, ok \in BOOLEAN : UploadFile(f, ok)
    \/ \E f \in FileIds : DeleteFile(f)
    \/ \E f \in FileIds : StartIndex(f)
    \/ \E r \in Runs : RunStep(r)
    \/ \E input \in BatchInputs : BatchStart(input)
    \/ BatchCollect

Spec == Init /\ [][Next]_vars

\* One index_documents request at a time, alone with uploads and deletions.
NextBatch ==
    \/ \E f \in FileIds, ok \in BOOLEAN : UploadFile(f, ok)
    \/ \E f \in FileIds : DeleteFile(f)
    \/ \E r \in Runs \ {0} : RunStep(r)
    \/ \E input \in BatchInputs : BatchStart(input)
    \/ BatchCollect

SpecBatch == Init /\ [][NextBatch]_vars

\* index_document calls one after the other, each on its own session.
NextSeq ==
    \/ \E f \in FileIds, ok \in BOOLEAN : UploadFile(f, ok)
    \/ \E f \in FileIds : DeleteFile(f)
    \/ \E f \in FileIds : StartIndex(f)
    \/ RunStep(0)

SpecSeq == Init /\ [][NextSeq]_vars

\* Sequential indexing and the searches over the committed store.
NextSearch ==
    \/ \E f \in FileIds : UploadFile(f, TRUE)
    \/ \E f \in FileIds : StartIndex(f)
    \/ RunStep(0)
    \/ \E qe \in BOOLEAN, limit \in Limits : SearchSimilar(qe, limit)
    \/ \E scope \in SUBSET FileIds, qe \in BOOLEAN : ChatScoped(scope, qe)

SpecSearch == Init /\ [][NextSearch]_vars

\* The ranking functions over a store of mixed content.
InitRank ==
    /\ InitStore
    /\ feat \in CandStores(MaxCands, Kinds)
    /\ arg = NoCall
    /\ ret = NoCall

NextRank ==
    \/ \E focus, qe \in BOOLEAN, limit \in RankLimits : SearchSimilarChunks(focus, qe, limit)
    \/ \E qe \in BOOLEAN, limit \in RankLimits : SearchPricingSpecific(qe, limit)
    \/ \E qe \in BOOLEAN, limit \in RankLimits : SearchProductPricingMatching(qe, limit)
    \/ \E qe \in BOOLEAN, limit \in RankLimits : SearchChunks(qe, limit)

SpecRank == InitRank /\ [][NextRank]_vars

\* search_similar_chunks over larger stores.
InitPlain ==
    /\ InitStore
    /\ feat \in CandStores(MaxPlain, PlainKinds)
    /\ arg = NoCall
    /\ ret = NoCall

NextPlain ==
    \E focus, qe \in BOOLEAN, limit \in RankLimits : SearchSimilarChunks(focus, qe, limit)

SpecPlain == InitPlain /\ [][NextPlain]_vars

\* create_enhanced_context applied to every input within the bounds.
InitAssemble ==
    /\ InitStore
    /\ feat = <<>>
    /\ arg \in AssembleInputs
    /\ ret = NoCall

NextAssemble == CreateEnhancedContext

SpecAssemble == InitAssemble /\ [][NextAssemble]_vars

\* chat_with_rag over a fixed store of indexed chunks.
InitChat ==
    /\ InitStore
    /\ feat \in ChatStores
    /\ arg = NoCall
    /\ ret = NoCall

NextChat ==
    \E user_id \in UserIds, scope \in Scopes, focus, pq, cq, qe, dbOk, genOk \in BOOLEAN :
        ChatWithRag(user_id, scope, focus, pq, cq, qe, dbOk, genOk)

SpecChat == InitChat /\ [][NextChat]_vars

\* chunk_text applied to every input within the bounds.
InitChunk ==
    /\ InitStore
    /\ feat = <<>>
    /\ arg \in ChunkInputs
    /\ ret = NoCall

NextChunk == ChunkText

SpecChunk == InitChunk /\ [][NextChunk]_vars

\* The searches over a store with unusable embeddings.
InitDamaged ==
    /\ InitStore
    /\ feat \in DamagedStores(MaxCands, PlainKinds)
    /\ arg = NoCall
    /\ ret = NoCall

NextDamaged ==
    \/ \E focus, qe \in BOOLEAN, limit \in RankLimits : SearchSimilarChunks(focus, qe, limit)
    \/ \E qe \in BOOLEAN, limit \in RankLimits : SearchPricingSpecific(qe, limit)
    \/ \E qe \in BOOLEAN, limit \in RankLimits : SearchProductPricingMatching(qe, limit)

SpecDamaged == InitDamaged /\ [][NextDamaged]_vars

-----------------------------------------------------------------------------
(* Properties. *)

PassOf(f) == {c.pass : c \in ChunksOf(f)}
IndicesOf(f) == {c.chunk_index : c \in ChunksOf(f)}
Succeeded(r) == run[r].pc = "done" /\ run[r].result
\* The rows of the committed store are exactly one row per index 0..n-1 of
\* run r's chunking pass.
HoldsExactlyPassOf(r) ==
    LET f == run[r].fid
    IN  /\ Cardinality(ChunksOf(f)) = run[r].n
        /\ {<<c.chunk_index, c.pass>> : c \in ChunksOf(f)}
             = {<<i, run[r].pass>> : i \in 0..(run[r].n - 1)}

\* C1: when a successful index_document call, run one after the other with
\* the earlier calls, has returned, the store holds for its document exactly
\* the chunks of that call's chunking pass and no chunk of an earlier pass.
C1_IndexingAtomicity ==
    (Succeeded(0) /\ files[run[0].fid].state = "present") => HoldsExactlyPassOf(0)

\* A second successful pass over a document whose first pass had stored
\* chunks (the DELETE of the second call removed rows).
C1_Witness ==
    /\ Succeeded(0)
    /\ run[0].pass = 2
    /\ run[0].ndel > 0
    /\ files[run[0].fid].state = "present"
    /\ ChunksOf(run[0].fid) # {}

\* C2: in every committed state the chunks stored for one document all come
\* from a single indexing pass.
C2_SinglePassPerDocument ==
    \A f \in FileIds : Cardinality(PassOf(f)) <= 1

\* C3: two indexing runs of the same document are never both between their
\* delete and their commit.
C3_NoInterleavedReplace ==
    \A r1, r2 \in Runs :
        (r1 # r2 /\ run[r1].pc = "add" /\ run[r2].pc = "add")
            => run[r1].fid # run[r2].fid

\* C4: in every committed state the chunk indices of each document are
\* unique and form the range 0..n-1.
C4_ContiguousIndices ==
    \A f \in FileIds :
        /\ Cardinality(IndicesOf(f)) = Cardinality(ChunksOf(f))
        /\ IndicesOf(f) = 0..(Cardinality(ChunksOf(f)) - 1)

\* C5: when index_document has returned for an existing document, the
\* document's status is completed if it returned true and failed otherwise.
C5_StatusAfterIndexing ==
    (run[0].pc = "done" /\ files[run[0].fid].state = "present")
        => files[run[0].fid].embedding_status
             = (IF run[0].result THEN "completed" ELSE "failed")

\* C6: every document's indexing status is one of pending, processing,
\* completed, failed.
C6_StatusDomain ==
    \A f \in FileIds :
        files[f].state = "present"
            => files[f].embedding_status \in {"pending", "processing", "completed", "failed"}

\* The rows run r has handed to its session so far.
Pending(r) == {c \in sess[SessOf(r)].added : c.pass = run[r].pass}

\* C7: a failed chunk embedding does not abort index_document: the loop goes
\* on to store every chunk with its index, the call returns success, and
\* exactly the chunks whose embedding failed are stored without embedding.
C7_EmbeddingFailureTolerated ==
    /\ run[0].pc = "add" =>
          /\ {c.chunk_index : c \in Pending(0)} = 0..(run[0].i - 1)
          /\ {c.chunk_index : c \in {d \in Pending(0) : ~d.emb}} = run[0].noemb
    /\ (Succeeded(0) /\ files[run[0].fid].state = "present") =>
          /\ HoldsExactlyPassOf(0)
          /\ {c.chunk_index : c \in {d \in ChunksOf(run[0].fid) : ~d.emb}} = run[0].noemb

\* A run that returned success although the embedding of every one of its
\* (two or more) chunks failed.
C7_Witness ==
    /\ Succeeded(0)
    /\ run[0].n >= 2
    /\ run[0].noemb = 0..(run[0].n - 1)
    /\ Cardinality(ChunksOf(run[0].fid)) = run[0].n

\* C8: no search result holds a chunk that is stored without an embedding.
C8_NoUnembeddedChunkFound ==
    \A k \in DOMAIN found : found[k].chunk.emb

Count(q, x) == Cardinality({k \in DOMAIN q : q[k] = x})
InSeq(q, x) == \E k \in DOMAIN q : q[k] = x
JobsOf(x, ok) == {j \in Jobs : ids[j] = x /\ run[j].result = ok}

\* C9 as stated: index_documents returns after every job has finished, every
\* input id is in exactly one of successful and failed, in successful exactly
\* when its run returned true, and total_processed counts the ids.
C9_ResultPartitionsIds ==
    bpc = "returned" =>
        /\ \A j \in Jobs : run[j].pc = "done"
        /\ results.total_processed = Len(ids)
        /\ \A j \in Jobs :
              /\ InSeq(results.successful, ids[j]) # InSeq(results.failed, ids[j])
              /\ InSeq(results.successful, ids[j]) <=> run[j].result

\* C9 amended: every submitted job is reported exactly once, in successful
\* exactly when its run returned true; with pairwise distinct input ids
\* every id is in exactly one of the two lists.
C9_ResultPartitionsJobs ==
    bpc = "returned" =>
        /\ \A j \in Jobs : run[j].pc = "done"
        /\ results.total_processed = Len(ids)
        /\ Len(results.successful) + Len(results.failed) = Len(ids)
        /\ \A x \in FileIds :
              /\ Count(results.successful, x) = Cardinality(JobsOf(x, TRUE))
              /\ Count(results.failed, x) = Cardinality(JobsOf(x, FALSE))
        /\ (\A j, k \in Jobs : j # k => ids[j] # ids[k]) =>
              \A j \in Jobs :
                 /\ InSeq(results.successful, ids[j]) # InSeq(results.failed, ids[j])
                 /\ InSeq(results.successful, ids[j]) <=> run[j].result

\* A batch of two jobs has returned with one success and one failure.
C9_Witness ==
    /\ bpc = "returned"
    /\ Len(ids) = 2
    /\ ids[1] # ids[2]
    /\ Len(results.successful) = 1
    /\ Len(results.failed) = 1

\* C10: when a batch over distinct documents has returned and no other
\* indexing pass ever ran, each document reported successful holds exactly
\* the complete chunk set of its own job.
C10_BatchJobsIsolated ==
    ( /\ bpc = "returned"
      /\ \A j, k \in Jobs : j # k => ids[j] # ids[k]
      /\ \A p \in 1..(nextPass - 1) : \E j \in Jobs : run[j].pass = p )
    => \A j \in Jobs :
          (run[j].result /\ files[ids[j]].state = "present")
              => /\ HoldsExactlyPassOf(j)
                 /\ files[ids[j]].is_indexed

Min(a, b) == IF a < b THEN a ELSE b
Returned_(c) == \E k \in DOMAIN found : found[k].chunk = c
PositionOf(c) == CHOOSE k \in DOMAIN found : found[k].chunk = c

\* C11: when the query cannot be embedded, each of the four search functions
\* returns the empty list, whatever the store holds.
C11_EmptyWhenQueryNotEmbedded ==
    (foundBy \in SearchFns /\ ~arg.embedded) => found = <<>>

\* A product-pricing search whose query could not be embedded, over a store
\* holding a chunk that the search would otherwise keep.
C11_Witness ==
    /\ foundBy = "search_product_pricing_matching"
    /\ ~arg.embedded
    /\ \E c \in Cands : feat[c].kind = "both" /\ feat[c].sim = 9
    /\ found = <<>>

\* C12: search_similar_chunks without pricing focus returns exactly the
\* candidates whose similarity is at least 0.3, unboosted, best first, cut at
\* limit; no candidate below the threshold is returned.
C12_PlainSearchExact ==
    (foundBy = "search_similar_chunks" /\ arg.embedded /\ ~arg.pricing_focus) =>
        LET above == {c \in Cands : feat[c].sim >= MinSimilarityThreshold}
            got == {found[k].chunk : k \in DOMAIN found}
        IN  /\ got \subseteq above
            /\ Len(found) = Min(arg.limit, Cardinality(above))
            /\ Cardinality(got) = Len(found)
            /\ \A k \in DOMAIN found :
                  found[k].similarity = feat[found[k].chunk].sim * NoBoost
            /\ \A j, k \in DOMAIN found :
                  j < k => found[j].similarity >= found[k].similarity
            /\ \A c \in above \ got : \A k \in DOMAIN found :
                  feat[c].sim <= feat[found[k].chunk].sim

\* The store of similarities 0.9, 0.2, 0.5 searched with limit 5 gave the
\* first and the third chunk, in that order.
C12_Witness ==
    /\ foundBy = "search_similar_chunks"
    /\ arg.embedded /\ ~arg.pricing_focus /\ arg.limit = 5
    /\ Len(feat) = 3
    /\ feat[1].sim = 9 /\ feat[2].sim = 2 /\ feat[3].sim = 5
    /\ Len(found) = 2
    /\ found[1].chunk = 1 /\ found[2].chunk = 3

\* C13: the result of every search function has at most limit elements and
\* is ordered by boosted similarity descending, equal similarities by chunk
\* index ascending.
C13_OrderedWithIndexTieBreak ==
    foundBy \in SearchFns =>
        /\ Len(found) <= arg.limit
        /\ \A j, k \in DOMAIN found :
              j < k =>
                 \/ found[j].similarity > found[k].similarity
                 \/ /\ found[j].similarity = found[k].similarity
                    /\ ChunkIndex(found[j].chunk) < ChunkIndex(found[k].chunk)

\* C14: in the pricing searches, of two candidates with the same cosine
\* similarity the one without a pricing signal is returned only after the one
\* with a pricing signal.
C14_PricingNeverBelow ==
    ( /\ arg.fn \in {"search_pricing_specific", "search_similar_chunks"}
      /\ arg.embedded
      /\ arg.fn = "search_similar_chunks" => arg.pricing_focus )
    => \A a, b \in Cands :
          ( /\ HasPricing(feat[a].kind)
            /\ ~HasPricing(feat[b].kind)
            /\ feat[a].sim = feat[b].sim
            /\ Returned_(b) )
          => (Returned_(a) /\ PositionOf(a) < PositionOf(b))

\* The dedicated pricing search returned a chunk with a pricing signal ahead
\* of a chunk without one that has the same cosine similarity.
C14_Witness ==
    /\ arg.fn = "search_pricing_specific"
    /\ arg.embedded
    /\ Len(found) = 2
    /\ HasPricing(feat[found[1].chunk].kind)
    /\ ~HasPricing(feat[found[2].chunk].kind)
    /\ feat[found[1].chunk].sim = feat[found[2].chunk].sim

\* C15: search_product_pricing_matching returns a chunk with both signals
\* with multiplier 2.5, ahead of every returned chunk that has neither signal
\* and the same cosine similarity.
C15_BothSignalsRankFirst ==
    (arg.fn = "search_product_pricing_matching" /\ arg.embedded) =>
        \A j \in DOMAIN found :
            feat[found[j].chunk].kind = "both" =>
                /\ found[j].boost = BothBoost
                /\ \A k \in DOMAIN found :
                      ( /\ feat[found[k].chunk].kind \in {"plain", "code"}
                        /\ feat[found[k].chunk].sim = feat[found[j].chunk].sim )
                      => j < k

\* The positions of the input chunks in the order the assembler considers
\* them: group by group.
RECURSIVE Grouped(_, _, _)
Grouped(q, keys, k) ==
    IF k = 0 THEN <<>>
    ELSE Grouped(q, keys, k - 1) \o GroupOf(q, keys[k], Len(q))

RECURSIVE FitByChunkWords(_, _, _, _, _)
\* The chunks C16 says are emitted: each one whose words, added to the words
\* of the chunks emitted before it, do not exceed max.
FitByChunkWords(q, order, k, max, st) ==
    IF k > Len(order) THEN st.emitted
    ELSE IF st.sum + q[order[k]].words <= max
         THEN FitByChunkWords(q, order, k + 1, max,
                              [emitted |-> st.emitted \cup {order[k]},
                               sum |-> st.sum + q[order[k]].words])
         ELSE FitByChunkWords(q, order, k + 1, max, st)

EmittedChunks(parts) ==
    {parts[k].pos : k \in {j \in DOMAIN parts : parts[j].part = "chunk"}}

\* C16: create_enhanced_context emits a chunk exactly when the words of the
\* chunks emitted so far plus its own words do not exceed max_tokens; two
\* chunks of 6 and 8 words of one document with max_tokens = 10 give the
\* header and the first chunk.
C16_EmitsWhileChunkWordsFit ==
    ret.fn = "create_enhanced_context" =>
        /\ EmittedChunks(ret.parts) =
              FitByChunkWords(arg.chunks,
                              Grouped(arg.chunks, GroupKeys(arg.chunks, Len(arg.chunks)),
                                      Len(GroupKeys(arg.chunks, Len(arg.chunks)))),
                              1, arg.max_tokens, [emitted |-> {}, sum |-> 0])
        /\ ( /\ arg.max_tokens = 10
             /\ Len(arg.chunks) = 2
             /\ arg.chunks[1].file_id = arg.chunks[2].file_id
             /\ arg.chunks[1].words = 6 /\ arg.chunks[2].words = 8 )
           => ret.parts = <<HeaderPart(arg.chunks[1].file_id), ChunkPart(1)>>

\* C17: chat_with_rag called with context_files, an empty list included,
\* refers only to chunks and files of context_files, and ranks them with
\* search_chunks: no classification of the query, no boost.
C17_ScopeOverrideRestricts ==
    (arg.fn = "chat_with_rag" /\ arg.context_files.given) =>
        /\ ret.context_files \subseteq arg.context_files.files
        /\ \A k \in DOMAIN ret.context_chunks :
              feat[ret.context_chunks[k]].file_id \in arg.context_files.files
        /\ foundBy \in {"search_chunks", "none"}
        /\ \A k \in DOMAIN found : found[k].boost = NoBoost

\* C18: without context_files, pricing_focus = True selects the pricing
\* search for every query; without pricing_focus the query is classified,
\* product matching before pricing.
C18_ForcedModeHonoured ==
    (arg.fn = "chat_with_rag" /\ ~arg.context_files.given) =>
        foundBy = (IF arg.pricing_focus THEN "search_pricing_specific"
                   ELSE IF arg.product_query THEN "search_product_pricing_matching"
                   ELSE IF arg.pricing_query THEN "search_pricing_specific"
                   ELSE "search_similar_chunks")

\* C19: chat_with_rag returns a result for every call; when the database,
\* the embedding of the query or the completion call failed, the file ids and
\* chunk ids it refers to are empty, and when the completion call failed the
\* response is the error text.
C19_FailureGivesEmptyProvenance ==
    arg.fn = "chat_with_rag" =>
        /\ ret.fn = "chat_with_rag"
        /\ (~arg.db_ok \/ ~arg.embedded \/ ~arg.generation_ok) =>
              /\ ret.context_files = {}
              /\ ret.context_chunks = <<>>
        /\ ~arg.generation_ok => ret.response = "error"

Prefix(q, n) == SubSeq(q, 1, Min(n, Len(q)))

RECURSIVE Rebuilt(_, _, _)
\* The first n tokens of every window but the last, and the whole last one.
Rebuilt(ws, n, k) ==
    IF k > Len(ws) THEN <<>>
    ELSE IF k = Len(ws) THEN ws[k]
    ELSE Prefix(ws[k], n) \o Rebuilt(ws, n, k + 1)

\* C20: for 0 <= overlap < chunk_size, chunk_text returns the windows that
\* start at 0, C-O, 2(C-O), ..., each of 1 to C tokens; the first C-O tokens
\* of each window and the whole last window give the text back; the empty
\* text gives no chunk.
C20_WindowsCoverText ==
    (ret.fn = "chunk_text" /\ arg.overlap < arg.chunk_size) =>
        LET T == arg.tokens
            C == arg.chunk_size
            O == arg.overlap
            ws == ret.chunks
        IN  /\ ~ret.raised
            /\ \A k \in DOMAIN ws :
                  /\ Len(ws[k]) \in 1..C
                  /\ (k - 1) * (C - O) < Len(T)
                  /\ \A j \in DOMAIN ws[k] : ws[k][j] = T[(k - 1) * (C - O) + j]
            /\ Len(ws) * (C - O) >= Len(T)
            /\ Rebuilt(ws, C - O, 1) = T
            /\ T = <<>> => ws = <<>>

\* A text of four tokens cut with chunk_size 3 and overlap 1: two windows,
\* the last one shorter than chunk_size.
C20_Witness ==
    /\ ret.fn = "chunk_text"
    /\ Len(arg.tokens) = 4 /\ arg.chunk_size = 3 /\ arg.overlap = 1
    /\ Len(ret.chunks) = 2
    /\ Len(ret.chunks[2]) = 2

\* C21: chunk_text called with overlap >= chunk_size reports an error for
\* every text; it never returns a chunk list.
C21_InvalidOverlapReported ==
    (ret.fn = "chunk_text" /\ arg.overlap >= arg.chunk_size) => ret.raised

\* C22: a search only reads: every step that returns a search result leaves
\* the stored chunks, their fields and the status of every document as they
\* were, also while an indexing transaction is open.
C22_SearchOnlyReads ==
    [][(found' # found \/ foundBy' # foundBy) => (chunks' = chunks /\ files' = files)]_vars

\* A search has returned chunks while an indexing run had deleted, and not
\* yet committed, the chunks of an indexed document.
C22_Witness ==
    /\ foundBy = "search_similar_chunks"
    /\ Len(found) >= 1
    /\ run[0].pc = "add"
    /\ run[0].ndel > 0
    /\ \E c \in chunks : ~c.emb

BoostAware(fn, focus) ==
    \/ fn \in {"search_pricing_specific", "search_product_pricing_matching"}
    \/ fn = "search_similar_chunks" /\ focus

\* C23: in the boost-aware searches a candidate is kept exactly when its
\* boosted similarity is at least 0.3 or it has a pricing signal, a product
\* signal or a model code; without boost exactly when its similarity is at
\* least 0.3.
C23_InclusionRule ==
    ( /\ arg.fn \in SearchFns \ {"search_chunks"}
      /\ arg.embedded
      /\ Cardinality(Cands) <= arg.limit )
    => \A c \in Cands :
          Returned_(c) <=>
             IF BoostAware(arg.fn, arg.pricing_focus)
             THEN \/ Boosted(arg.fn, arg.pricing_focus, c) >= 30
                  \/ HasPricing(feat[c].kind)
                  \/ HasProduct(feat[c].kind)
                  \/ HasModels(feat[c].kind)
             ELSE feat[c].sim >= 3

\* The multiplier the specification gives for a search and a content, in
\* tenths.
ExpectedMultiplier(fn, focus, kind) ==
    IF fn = "search_product_pricing_matching"
    THEN (IF kind = "both" THEN 25
          ELSE IF kind = "pricing" THEN 18
          ELSE IF kind = "product" THEN 15
          ELSE 10)
    ELSE IF fn = "search_pricing_specific"
    THEN (IF kind \in {"pricing", "both"} THEN 18 ELSE 10)
    ELSE IF fn = "search_similar_chunks" /\ focus
    THEN (IF kind \in {"pricing", "both"} THEN 15 ELSE 10)
    ELSE 10

\* C24: the similarity a search returns for a chunk is its cosine similarity
\* times a multiplier fixed by the search and the signals of the chunk (1.0,
\* 1.5, 1.8 or 2.5), never clamped.
C24_BoostMultiplierTable ==
    (arg.fn \in SearchFns) =>
        \A k \in DOMAIN found :
            LET m == ExpectedMultiplier(arg.fn, arg.pricing_focus, feat[found[k].chunk].kind)
            IN  /\ found[k].boost = m
                /\ found[k].similarity = feat[found[k].chunk].sim * m

\* The product-pricing search returned a chunk with both signals and cosine
\* similarity 0.9 with the boosted similarity 2.25.
C24_Witness ==
    /\ arg.fn = "search_product_pricing_matching"
    /\ Len(found) >= 1
    /\ feat[found[1].chunk].kind = "both"
    /\ feat[found[1].chunk].sim = 9
    /\ found[1].similarity = 225

\* C25: a row whose stored embedding cannot be processed is skipped, and the
\* search returns what it returns for the store without that row: the best
\* kept rows among the others, cut at limit.
C25_UnusableEmbeddingSkipped ==
    (arg.fn \in SearchFns \ {"search_chunks"} /\ arg.embedded) =>
        LET good == {c \in Cands : feat[c].stored = "ok"
                                   /\ Kept(arg.fn, arg.pricing_focus, c)}
            got == {found[k].chunk : k \in DOMAIN found}
        IN  /\ got \subseteq good
            /\ Len(found) = Min(arg.limit, Cardinality(good))
            /\ Cardinality(got) = Len(found)
            /\ \A j, k \in DOMAIN found :
                  j < k => found[j].similarity >= found[k].similarity
            /\ \A c \in good \ got : \A k \in DOMAIN found :
                  Boosted(arg.fn, arg.pricing_focus, c) <= found[k].similarity

\* A search over a store whose best row has an unusable embedding returned
\* the other row.
C25_Witness ==
    /\ arg.fn = "search_similar_chunks"
    /\ Len(feat) = 2
    /\ feat[1].stored = "bad" /\ feat[1].sim = 9
    /\ feat[2].stored = "ok" /\ feat[2].sim = 5
    /\ Len(found) = 1
    /\ found[1].chunk = 2

\* C26: once create_enhanced_context has omitted a chunk, it emits nothing
\* more: no later chunk and no header of a later group; every chunk it emits
\* comes after exactly one header of its own document.
C26_NothingAfterOmission ==
    ret.fn = "create_enhanced_context" =>
        LET q == arg.chunks
            keys == GroupKeys(q, Len(q))
            order == Grouped(q, keys, Len(keys))
            emitted == EmittedChunks(ret.parts)
            headers(f) == {p \in DOMAIN ret.parts : ret.parts[p] = HeaderPart(f)}
        IN  /\ \A i, j \in DOMAIN order :
                  (i < j /\ order[i] \notin emitted) => order[j] \notin emitted
            /\ \A g, h \in DOMAIN keys :
                  ( /\ g < h
                    /\ \E k \in DOMAIN q : q[k].file_id = keys[g] /\ k \notin emitted )
                  => headers(keys[h]) = {}
            /\ \A p \in DOMAIN ret.parts :
                  ret.parts[p].part = "chunk" =>
                      /\ Cardinality(headers(q[ret.parts[p].pos].file_id)) = 1
                      /\ \A h \in headers(q[ret.parts[p].pos].file_id) : h < p

\* C27 as stated: a non-empty text of fewer tokens than chunk_size gives
\* exactly one chunk.
C27_ShortTextOneChunk ==
    ( /\ ret.fn = "chunk_text"
      /\ arg.overlap < arg.chunk_size
      /\ Len(arg.tokens) \in 1..(arg.chunk_size - 1) )
    => Len(ret.chunks) = 1

\* C27 amended: a non-empty text of at most chunk_size - overlap tokens gives
\* exactly one chunk, the whole text.
C27_TextWithinStepOneChunk ==
    ( /\ ret.fn = "chunk_text"
      /\ arg.overlap < arg.chunk_size
      /\ Len(arg.tokens) \in 1..(arg.chunk_size - arg.overlap) )
    => ret.chunks = <<arg.tokens>>

\* A text of exactly chunk_size - overlap tokens (2 of 3 - 1) gave one chunk.
C27_Witness ==
    /\ ret.fn = "chunk_text"
    /\ arg.chunk_size = 3 /\ arg.overlap = 1
    /\ Len(arg.tokens) = 2
    /\ Len(ret.chunks) = 1

\* C28: every step of a single process_file_for_rag call other than its
\* successful return leaves the stored chunks of every document as they were,
\* so a call that returns False has deleted and replaced nothing.
C28_FailedRunChangesNothing ==
    [][(run'[0] # run[0] /\ ~(run'[0].pc = "done" /\ run'[0].result))
          => chunks' = chunks]_vars

\* With file 1 the only file ever uploaded: its first pass is stored, the
\* second pass got as far as its DELETE, and the last call returned False.
C28_Witness ==
    /\ run[0].pc = "done" /\ ~run[0].result /\ run[0].fid = 1
    /\ files[1].state = "present" /\ files[2].state = "absent"
    /\ nextPass = 3
    /\ PassOf(1) = {1}
    /\ ChunksOf(1) # {}

\* C29: in every reachable state every stored chunk belongs to an existing
\* document; once delete_file has committed no chunk of that file is stored,
\* also when an indexing run of the same file is in flight.
C29_NoOrphanChunk ==
    \A c \in chunks : files[c.file_id].state = "present"

\* delete_file of file 1 has committed while an indexing run of file 1 holds
\* chunks of it that are not committed yet.
C29_Witness ==
    \E r \in Runs :
        /\ run[r].pc = "add"
        /\ run[r].fid = 1
        /\ files[1].state = "deleted"
        /\ \E c \in sess[SessOf(r)].added : c.file_id = 1

\* C30: every chunk in the result of a chat_with_rag call made with user id
\* u belongs to a file uploaded by u, on the all-files path and on the
\* file-scope path.
C30_OnlyOwnDocuments ==
    ret # NoCall =>
        \A k \in DOMAIN ret.context_chunks :
            UploadedBy(feat[ret.context_chunks[k]].file_id) = arg.user_id

====
